---- MODULE Spec2Model ----
(***************************************************************************)
(* Model of the two stateful cores of ec2menu_v5.5.0_mac.py:               *)
(*   - PerformanceCache: a TTL cache with background refresh threads;      *)
(*   - BatchJobManager: pre-flight validation, a bounded worker pool with  *)
(*     a per-target retry loop, and the manual re-drive of the failures.   *)
(* The two parts share no state; each has its own specification.           *)
(***************************************************************************)
EXTENDS Integers, Sequences, FiniteSets, Bags, TLC

VARIABLES
    now,                        \* the clock read by datetime.now(), in seconds
    cache,                      \* PerformanceCache._cache: key -> CacheEntry
    background_refresh_active,  \* PerformanceCache._background_refresh_active (its keys)
    thr,                        \* the refresh_worker threads: their key, position, fetched data, and whether they hold self._lock
    fn_calls,                   \* per key: calls of refresh_func since the key was last unmarked
    skipped_calls,              \* the keys for which a start_background_refresh returned early since the key was last unmarked
    caller,                     \* a thread in AWSManager.list_instances: its position and locals
    set_log,                    \* per key: the arguments and the time of the last set(key, v, ttl), if it is the last write
    frame,                      \* the running call of execute_batch_command: its position and locals
    stack,                      \* the calls of execute_batch_command waiting for a re-drive to return
    timeout_seconds,            \* the timeout_seconds argument of the batch run
    dispatched,                 \* the instance ids send_command was called for in this run
    results_history,            \* BatchJobManager.results_history
    disk,                       \* the entries of the file at BATCH_RESULTS_PATH
    poll,                       \* the polling loop of one attempt: its position and locals
    worker                      \* one execute_on_instance call with its clock: position, attempt, times

cacheVars == <<now, cache, background_refresh_active, thr, fn_calls, skipped_calls, set_log, caller>>

runVars == <<frame, stack, timeout_seconds, dispatched, results_history, disk>>

batchVars == <<frame, stack, timeout_seconds, dispatched, results_history, disk, poll, worker>>

vars == <<now, cache, background_refresh_active, thr, fn_calls, skipped_calls, set_log, caller,
          frame, stack, timeout_seconds, dispatched, results_history, disk, poll, worker>>

-----------------------------------------------------------------------------
(* Bounds of the model *)

\* the clock stops here
MaxTime == 120
\* refresh threads of one key that may be alive at once
MaxThreads == 2

\* the clock advances by these amounts (seconds)
TickSteps == {60}

\* Python's None, as a value of `data` and as a return value
None == "None"

\* cache keys, each as the list of its '_'-separated parts:
\* "instances_p_r1" and "s3_objects_p_r1"
Keys == { <<"instances", "p", "r1">>, <<"s3", "objects", "p", "r1">> }

\* the payloads a fetch or a caller may supply
Values == {"v1", "v2"}

\* the explicit ttl_seconds arguments; <<>> is ttl_seconds=None, <<t>> is ttl_seconds=t
TtlArgs == { <<>>, <<60>> }

\* keys for the TTL resolution: "instances_p_r1", "Instances_p_r1",
\* "s3_buckets_p", "cache_p_r1", "regions_p"
TtlKeys ==
    { <<"instances", "p", "r1">>, <<"Instances", "p", "r1">>, <<"s3", "buckets", "p">>,
      <<"cache", "p", "r1">>, <<"regions", "p">> }

\* ttl_seconds arguments for the TTL resolution
TtlArgsWide == { <<>>, <<0>>, <<3600>> }

-----------------------------------------------------------------------------
(* Config.CACHE_TTLS and the TTL resolution *)

CACHE_TTLS ==
    [ c \in { "instances", "ssm", "rds", "elasticache", "ecs", "eks", "regions",
              "cloudwatch_dashboards", "cloudwatch_alarms", "cloudwatch_logs",
              "lambda", "s3_buckets", "s3_objects", "default" } |->
        CASE c = "instances" -> 120
          [] c = "ssm" -> 120
          [] c = "rds" -> 300
          [] c = "elasticache" -> 300
          [] c = "ecs" -> 600
          [] c = "eks" -> 600
          [] c = "regions" -> 3600
          [] c = "cloudwatch_dashboards" -> 600
          [] c = "cloudwatch_alarms" -> 120
          [] c = "cloudwatch_logs" -> 60
          [] c = "lambda" -> 300
          [] c = "s3_buckets" -> 600
          [] c = "s3_objects" -> 60
          [] c = "default" -> 300 ]

\* str.lower() on the key parts of the model
lower(s) ==
    CASE s = "Instances" -> "instances"
      [] s = "INSTANCES" -> "instances"
      [] s = "S3" -> "s3"
      [] OTHER -> s

get_ttl_for_key_cased(key) ==
    LET resource_type == IF Len(key) > 1 THEN key[1] ELSE "default"
    IN  IF resource_type \in DOMAIN CACHE_TTLS
        THEN CACHE_TTLS[resource_type]
        ELSE CACHE_TTLS["default"]

\* PerformanceCache._get_ttl_for_key: key.split('_')[0].lower() if '_' in key
get_ttl_for_key(key) ==
    LET resource_type == IF Len(key) > 1 THEN lower(key[1]) ELSE "default"
    IN  IF resource_type \in DOMAIN CACHE_TTLS
        THEN CACHE_TTLS[resource_type]
        ELSE CACHE_TTLS["default"]

-----------------------------------------------------------------------------
(* CacheEntry and the dictionary operations *)

CacheEntry(data, timestamp, ttl_seconds) ==
    [data |-> data, timestamp |-> timestamp, ttl_seconds |-> ttl_seconds]

is_expired_ge(entry) == now - entry.timestamp >= entry.ttl_seconds

\* CacheEntry.is_expired
is_expired(entry) == now - entry.timestamp > entry.ttl_seconds

\* d[k] = v on a dict
DictSet(d, k, v) == [x \in DOMAIN d \cup {k} |-> IF x = k THEN v ELSE d[x]]

\* d.pop(k, None) on a dict
DictPop(d, k) == [x \in DOMAIN d \ {k} |-> d[x]]

EmptyDict == [x \in {} |-> None]

\* the value PerformanceCache.get returns
get(key) ==
    IF key \in DOMAIN cache /\ ~is_expired(cache[key])
    THEN cache[key].data
    ELSE None

\* no thread is in list_instances
IdleCaller ==
    [pc |-> "idle", key |-> <<>>, force_refresh |-> FALSE, cached_data |-> None,
     instances |-> None, ret |-> None]

IdleThread == [key |-> <<>>, pc |-> "idle", new_data |-> None, holds_lock |-> FALSE]

NewThreadLocked(key) == [key |-> key, pc |-> "fetching", new_data |-> None, holds_lock |-> TRUE]

\* a refresh_worker that has just been started for key; it runs refresh_func
\* first, outside every `with self._lock` block
NewThread(key) == [key |-> key, pc |-> "fetching", new_data |-> None, holds_lock |-> FALSE]

\* a thread is named by its key and a number
Threads == Keys \X (1 .. MaxThreads)

LiveThreads(key) == {t \in Threads : thr[t].pc # "idle" /\ thr[t].key = key}

\* `with self._lock` entered by a caller's thread: no refresh thread holds the lock
lock_free == \A t \in Threads : ~thr[t].holds_lock

\* `with self._lock` entered by refresh thread t (the lock is reentrant)
lock_free_for(t) == \A u \in Threads \ {t} : ~thr[u].holds_lock

-----------------------------------------------------------------------------
(* PerformanceCache: the calls made by the program's threads.  Each call *)
(* runs under self._lock, so each is one step.                            *)

GetEvicts(key) ==
    /\ key \in Keys
    /\ lock_free
    /\ cache' = IF key \in DOMAIN cache /\ is_expired(cache[key])
                THEN DictPop(cache, key)
                ELSE cache
    /\ UNCHANGED <<now, background_refresh_active, thr, fn_calls, skipped_calls, set_log, caller, batchVars>>

\* PerformanceCache.get
Get(key) ==
    /\ key \in Keys
    /\ lock_free
    /\ UNCHANGED <<now, cache, background_refresh_active, thr, fn_calls, skipped_calls, set_log, caller, batchVars>>

\* the dictionary after PerformanceCache.set(key, data, ttl_seconds)
set(key, data, ttl_arg) ==
    LET ttl_seconds == IF ttl_arg = <<>> THEN get_ttl_for_key(key) ELSE ttl_arg[1]
    IN  DictSet(cache, key, CacheEntry(data, now, ttl_seconds))

\* PerformanceCache.set called by a caller
Set(key, data, ttl_arg) ==
    /\ lock_free
    /\ cache' = set(key, data, ttl_arg)
    /\ set_log' = DictSet(set_log, key, [v |-> data, ttl |-> ttl_arg, at |-> now])
    /\ UNCHANGED <<now, background_refresh_active, thr, fn_calls, skipped_calls, caller, batchVars>>

InvalidateUnmarks(key) ==
    /\ lock_free
    /\ cache' = DictPop(cache, key)
    /\ set_log' = DictPop(set_log, key)
    /\ background_refresh_active' = background_refresh_active \ {key}
    /\ UNCHANGED <<now, thr, fn_calls, skipped_calls, caller, batchVars>>

\* PerformanceCache.invalidate
Invalidate(key) ==
    /\ lock_free
    /\ cache' = DictPop(cache, key)
    /\ set_log' = DictPop(set_log, key)
    /\ UNCHANGED <<now, background_refresh_active, thr, fn_calls, skipped_calls, caller, batchVars>>

\* PerformanceCache.clear
Clear ==
    /\ lock_free
    /\ cache' = EmptyDict
    /\ set_log' = EmptyDict
    /\ UNCHANGED <<now, background_refresh_active, thr, fn_calls, skipped_calls, caller, batchVars>>

StartRefreshUnguarded(key) ==
    \/ /\ background_refresh_active' = background_refresh_active \cup {key}
       /\ \E t \in Threads :
            /\ t[1] = key /\ thr[t].pc = "idle"
            /\ \A u \in Threads : u[1] = key /\ u[2] < t[2] => thr[u].pc # "idle"
            /\ thr' = [thr EXCEPT ![t] = NewThread(key)]
       /\ fn_calls' = [fn_calls EXCEPT ![key] = @ + 1]
       /\ UNCHANGED <<now, cache, skipped_calls, set_log, caller, batchVars>>
    \/ /\ background_refresh_active' = background_refresh_active \cup {key}
       /\ UNCHANGED <<now, cache, thr, fn_calls, skipped_calls, set_log, caller, batchVars>>

\* PerformanceCache.start_background_refresh: the check and the marking under
\* the lock, then Thread(target=refresh_worker).start(), which starts the
\* worker (refresh_func is its first call) or raises when no thread can be made
start_background_refresh(key) ==
    \/ /\ lock_free
       /\ key \in background_refresh_active
       /\ skipped_calls' = skipped_calls \cup {key}
       /\ UNCHANGED <<now, cache, background_refresh_active, thr, fn_calls, set_log, batchVars>>
    \/ /\ lock_free
       /\ key \notin background_refresh_active
       /\ background_refresh_active' = background_refresh_active \cup {key}
       /\ \E t \in Threads :
            /\ t[1] = key /\ thr[t].pc = "idle"
            /\ \A u \in Threads : u[1] = key /\ u[2] < t[2] => thr[u].pc # "idle"
            /\ thr' = [thr EXCEPT ![t] = NewThread(key)]
       /\ fn_calls' = [fn_calls EXCEPT ![key] = @ + 1]
       /\ UNCHANGED <<now, cache, skipped_calls, set_log, batchVars>>
    \/ /\ lock_free
       /\ key \notin background_refresh_active
       /\ background_refresh_active' = background_refresh_active \cup {key}
       /\ UNCHANGED <<now, cache, thr, fn_calls, skipped_calls, set_log, batchVars>>

\* start_background_refresh called by a thread other than the one in list_instances
StartRefresh(key) ==
    /\ start_background_refresh(key)
    /\ UNCHANGED caller

-----------------------------------------------------------------------------
(* refresh_worker, the body of a refresh thread *)

\* refresh_func(*args, **kwargs) returns new_data
FetchReturn(t, v) ==
    /\ thr[t].pc = "fetching"
    /\ thr' = [thr EXCEPT ![t].pc = "fetched", ![t].new_data = v]
    /\ UNCHANGED <<now, cache, background_refresh_active, fn_calls, skipped_calls, set_log, caller, batchVars>>

FetchRaiseDropsEntry(t) ==
    /\ thr[t].pc = "fetching"
    /\ thr' = [thr EXCEPT ![t].pc = "failed"]
    /\ cache' = DictPop(cache, thr[t].key)
    /\ UNCHANGED <<now, background_refresh_active, fn_calls, skipped_calls, set_log, caller, batchVars>>

FetchRaiseIntoCaller(t) ==
    /\ thr[t].pc = "fetching"
    /\ thr' = [thr EXCEPT ![t].pc = "failed"]
    /\ caller' = [caller EXCEPT !.pc = "raised"]
    /\ UNCHANGED <<now, cache, background_refresh_active, fn_calls, skipped_calls, set_log, batchVars>>

\* refresh_func raises: the except branch logs a warning
FetchRaise(t) ==
    /\ thr[t].pc = "fetching"
    /\ thr' = [thr EXCEPT ![t].pc = "failed"]
    /\ UNCHANGED <<now, cache, background_refresh_active, fn_calls, skipped_calls, set_log, caller, batchVars>>

CommitKeepsClock(t) ==
    /\ thr[t].pc = "fetched"
    /\ lock_free_for(t)
    /\ cache' = IF thr[t].key \in DOMAIN cache
                THEN [cache EXCEPT ![thr[t].key].data = thr[t].new_data]
                ELSE set(thr[t].key, thr[t].new_data, <<>>)
    /\ set_log' = DictSet(set_log, thr[t].key,
                          [v |-> thr[t].new_data, ttl |-> <<>>, at |-> now])
    /\ thr' = [thr EXCEPT ![t].pc = "committed"]
    /\ UNCHANGED <<now, background_refresh_active, fn_calls, skipped_calls, caller, batchVars>>

\* self.set(key, new_data)
Commit(t) ==
    /\ thr[t].pc = "fetched"
    /\ lock_free_for(t)
    /\ cache' = set(thr[t].key, thr[t].new_data, <<>>)
    /\ set_log' = DictSet(set_log, thr[t].key,
                          [v |-> thr[t].new_data, ttl |-> <<>>, at |-> now])
    /\ thr' = [thr EXCEPT ![t].pc = "committed"]
    /\ UNCHANGED <<now, background_refresh_active, fn_calls, skipped_calls, caller, batchVars>>

FinallyOnSuccessOnly(t) ==
    /\ thr[t].pc \in {"committed", "failed"}
    /\ background_refresh_active' =
            IF thr[t].pc = "committed"
            THEN background_refresh_active \ {thr[t].key}
            ELSE background_refresh_active
    /\ fn_calls' = [fn_calls EXCEPT ![thr[t].key] = 0]
    /\ skipped_calls' = skipped_calls \ {thr[t].key}
    /\ thr' = [thr EXCEPT ![t] = IdleThread]
    /\ UNCHANGED <<now, cache, set_log, caller, batchVars>>

\* finally: self._background_refresh_active.pop(key, None); the thread ends
Finally(t) ==
    /\ thr[t].pc \in {"committed", "failed"}
    /\ lock_free_for(t)
    /\ background_refresh_active' = background_refresh_active \ {thr[t].key}
    /\ fn_calls' = [fn_calls EXCEPT ![thr[t].key] = 0]
    /\ skipped_calls' = skipped_calls \ {thr[t].key}
    /\ thr' = [thr EXCEPT ![t] = IdleThread]
    /\ UNCHANGED <<now, cache, set_log, caller, batchVars>>

\* one step of thread t
WorkerStep(t) ==
    \/ \E v \in Values : FetchReturn(t, v)
    \/ FetchRaise(t)
    \/ Commit(t)
    \/ Finally(t)

\* time passes
Tick(d) ==
    /\ now + d <= MaxTime
    /\ now' = now + d
    /\ UNCHANGED <<cache, background_refresh_active, thr, fn_calls, skipped_calls, set_log, caller, batchVars>>

-----------------------------------------------------------------------------
(* AWSManager.list_instances, the read-through caller of the cache *)

\* an empty list of instances
EmptyList == "[]"

\* what _fetch_instances returns: the running instances of the region, or []
\* when there is none or describe_instances raised a ClientError
Fetched == {EmptyList, "v1"}

\* the cache keys list_instances builds: f"instances_{self.profile}_{region}"
ReadKeys == { <<"instances", "p", "r1">> }

\* `if cached_data:`
truthy(v) == v \notin {None, EmptyList}

\* list_instances(region, force_refresh) is entered
ListInstances(key, force_refresh) ==
    /\ caller.pc \in {"idle", "returned", "raised"}
    /\ caller' = [IdleCaller EXCEPT !.pc = "entered", !.key = key,
                                    !.force_refresh = force_refresh]
    /\ UNCHANGED <<now, cache, background_refresh_active, thr, fn_calls, skipped_calls,
                   set_log, batchVars>>

\* if not force_refresh: cached_data = _cache.get(cache_key); if cached_data:
CallerGet ==
    /\ caller.pc = "entered"
    /\ IF caller.force_refresh
       THEN caller' = [caller EXCEPT !.pc = "miss"]
       ELSE /\ lock_free
            /\ caller' = [caller EXCEPT !.cached_data = get(caller.key),
                                        !.pc = IF truthy(get(caller.key)) THEN "hit" ELSE "miss"]
    /\ UNCHANGED <<now, cache, background_refresh_active, thr, fn_calls, skipped_calls,
                   set_log, batchVars>>

\* _cache.start_background_refresh(cache_key, self._fetch_instances, region);
\* return cached_data
CallerRefresh ==
    /\ caller.pc = "hit"
    /\ start_background_refresh(caller.key)
    /\ caller' = IF caller.key \notin background_refresh_active /\ thr' = thr
                 THEN [caller EXCEPT !.pc = "raised"]
                 ELSE [caller EXCEPT !.pc = "returned", !.ret = caller.cached_data]

\* instances = self._fetch_instances(region) returns
CallerFetchReturn(v) ==
    /\ caller.pc = "miss"
    /\ caller' = [caller EXCEPT !.pc = "fetched", !.instances = v]
    /\ UNCHANGED <<now, cache, background_refresh_active, thr, fn_calls, skipped_calls,
                   set_log, batchVars>>

\* self._fetch_instances(region) raises an exception that is not a ClientError
CallerFetchRaise ==
    /\ caller.pc = "miss"
    /\ caller' = [caller EXCEPT !.pc = "raised"]
    /\ UNCHANGED <<now, cache, background_refresh_active, thr, fn_calls, skipped_calls,
                   set_log, batchVars>>

\* _cache.set(cache_key, instances); return instances
CallerSet ==
    /\ caller.pc = "fetched"
    /\ lock_free
    /\ cache' = set(caller.key, caller.instances, <<>>)
    /\ set_log' = DictSet(set_log, caller.key,
                          [v |-> caller.instances, ttl |-> <<>>, at |-> now])
    /\ caller' = [caller EXCEPT !.pc = "returned", !.ret = caller.instances]
    /\ UNCHANGED <<now, background_refresh_active, thr, fn_calls, skipped_calls, batchVars>>

\* the running instances of the region as describe_instances reports them
\* at the times of the clock: the list changes with every tick
Snapshots == <<"s0", "s1", "s2">>

snapshot_at(t) == Snapshots[(t \div 60) + 1]

\* the position of a list among the snapshots: the greater, the later
Age(v) == CHOOSE i \in DOMAIN Snapshots : Snapshots[i] = v

\* what describe_instances does inside _fetch_instances
UpstreamOutcomes == {"ok", "ClientError"}

\* _fetch_instances: the instances found, or [] after `except ClientError`
fetch_instances(upstream) ==
    IF upstream = "ClientError" THEN EmptyList ELSE snapshot_at(now)

\* the 'r' option of the instance menu: invalidate_cache_for_service(manager,
\* region, "instances"), made by the thread that calls list_instances
MenuRefresh(key) ==
    /\ caller.pc \in {"idle", "returned", "raised"}
    /\ Invalidate(key)

-----------------------------------------------------------------------------
(* BatchJobManager: the data *)

\* instances handed to one execute_batch_command call
MaxTargets == 2
\* re-drives nested in one run (the caller answers 'y' at most this deep)
MaxDepth == 1
\* leading polls of a polling script before its lasting answer
MaxPre == 2
\* instances handed to a call that fills the worker pool
PoolTargets == 6

\* Config.BATCH_COMMAND_RETRY
BATCH_COMMAND_RETRY == 3
\* Config.BATCH_RETRY_DELAY
BATCH_RETRY_DELAY == 10
\* Config.BATCH_RETRY_MAX_DELAY
BATCH_RETRY_MAX_DELAY == 60
\* max_attempts of the polling loop
max_attempts == 200
\* the entries save_results_history keeps: results_history[-100:]
history_keep == 100

\* the instances of the menu: instance_data['raw']['InstanceId'], instance_data['Region']
InstanceUniverse ==
    { [InstanceId |-> "i-a", Region |-> "r1"],
      [InstanceId |-> "i-b", Region |-> "r1"],
      [InstanceId |-> "i-c", Region |-> "r2"] }

\* the lists the batch menu passes: not empty, the same instance may be selected twice
InstanceLists == UNION { [1 .. n -> InstanceUniverse] : n \in 1 .. MaxTargets }

\* the timeout_seconds the caller passes (the default)
TimeoutChoices == {120}

\* the elements of a sequence
Range(s) == {s[i] : i \in DOMAIN s}

\* the elements of a sequence with their multiplicities
SeqToBag(s) == [x \in Range(s) |-> Cardinality({i \in DOMAIN s : s[i] = x})]

Oldest(s, n) == IF Len(s) <= n THEN s ELSE SubSeq(s, 1, n)

\* seq[-n:]
Last(s, n) == IF Len(s) <= n THEN s ELSE SubSeq(s, Len(s) - n + 1, Len(s))

\* BatchJobResult; its timestamp is the number of the pass that made it
BatchJobResult(instance_id, status, error) ==
    [instance_id |-> instance_id, status |-> status, error |-> error,
     timestamp |-> Len(stack)]

\* no send_command call and no polling
NoEvent == [send |-> None, end |-> None]

\* None where a BatchJobResult is expected
NoneResult == [instance_id |-> None, status |-> None, error |-> None, timestamp |-> 0]

\* a future of the pool and the worker behind it; a future the as_completed
\* loop has consumed is not looked at again
\* slept: the sleeps of its retry loop so far; event: what happened in the
\* pass of the loop that returned the result
NewFutureContinued ==
    [st |-> "queued", attempt |-> IF stack = <<>> THEN 0 ELSE BATCH_COMMAND_RETRY,
     result |-> NoneResult, collected |-> FALSE, slept |-> <<>>, event |-> NoEvent]

NewFuture ==
    [st |-> "queued", attempt |-> 0, result |-> NoneResult, collected |-> FALSE,
     slept |-> <<>>, event |-> NoEvent]

ConsumedFuture ==
    [st |-> "done", attempt |-> 0, result |-> NoneResult, collected |-> TRUE,
     slept |-> <<>>, event |-> NoEvent]

\* the locals of a call of execute_batch_command; saved is the outcome of its
\* save_results_history() call ("ok" or "failed") once it was made
NewFrame(instances) ==
    [pc |-> "preflight", instances |-> instances, ssm_response |-> <<>>,
     validated_instances |-> <<>>, fut |-> <<>>, results |-> <<>>,
     pass_results |-> <<>>, retry_choice |-> "", retry_results |-> <<>>,
     saved |-> ""]

IdleFrame == [NewFrame(<<>>) EXCEPT !.pc = "idle"]

-----------------------------------------------------------------------------
(* BatchJobManager._validate_ssm_instances *)

\* regions_to_check: the regions in order of first appearance
RegionOrder(instances) ==
    LET F[i \in 0 .. Len(instances)] ==
            IF i = 0 THEN <<>>
            ELSE IF instances[i].Region \in Range(F[i - 1])
                 THEN F[i - 1]
                 ELSE Append(F[i - 1], instances[i].Region)
    IN  F[Len(instances)]

\* regions_to_check[region]
region_instances(instances, region) ==
    LET InRegion(t) == t.Region = region IN SelectSeq(instances, InRegion)

\* what describe_instance_information may do for a group: raise, or report a
\* PingStatus for some of the ids asked for
SsmAnswers(ids) ==
    {[raised |-> TRUE, info |-> <<>>]} \cup
    {[raised |-> FALSE, info |-> f] :
        f \in UNION {[S -> {"Online", "ConnectionLost"}] : S \in SUBSET ids}}

\* the answers for every region of a list
SsmResponses(instances) ==
    LET regions == Range(RegionOrder(instances))
        ids(r) == {t.InstanceId : t \in Range(region_instances(instances, r))}
        all == SsmAnswers({t.InstanceId : t \in Range(instances)})
    IN  {resp \in [regions -> all] : \A r \in regions : resp[r] \in SsmAnswers(ids(r))}

\* online_instances
online_instances(answer) ==
    {id \in DOMAIN answer.info : answer.info[id] = "Online"}

validated_of_region_failclosed(group, answer) ==
    IF answer.raised
    THEN <<>>
    ELSE LET Online(t) == t.InstanceId \in online_instances(answer)
         IN  SelectSeq(group, Online)

\* one round of the per-region loop: what it adds to validated
validated_of_region(group, answer) ==
    IF answer.raised
    THEN group
    ELSE LET Online(t) == t.InstanceId \in online_instances(answer)
         IN  SelectSeq(group, Online)

validate_ssm_instances(instances, resp) ==
    LET order == RegionOrder(instances)
        G[i \in 0 .. Len(order)] ==
            IF i = 0 THEN <<>>
            ELSE G[i - 1] \o validated_of_region(region_instances(instances, order[i]),
                                                 resp[order[i]])
    IN  G[Len(order)]

-----------------------------------------------------------------------------
(* execute_on_instance: the polling loop and the retry loop *)

\* max_retries
max_retries == BATCH_COMMAND_RETRY

attempts_range_short == 0 .. max_retries - 1

\* range(max_retries + 1)
attempts_range == 0 .. max_retries

retry_delay_flat(attempt) == BATCH_RETRY_DELAY

\* delay = min(Config.BATCH_RETRY_DELAY * attempt, Config.BATCH_RETRY_MAX_DELAY)
retry_delay(attempt) ==
    IF BATCH_RETRY_DELAY * attempt < BATCH_RETRY_MAX_DELAY
    THEN BATCH_RETRY_DELAY * attempt
    ELSE BATCH_RETRY_MAX_DELAY

\* the sleeps at the head of pass number `attempt` of the retry loop
sleeps_before(attempt) == IF attempt > 0 THEN <<retry_delay(attempt)>> ELSE <<>>

\* what a get_command_invocation call may do: a terminal Status, a Status still
\* in progress, a ClientError (by code), another exception
PollResponses ==
    {"Success", "Failed", "Cancelled", "TimedOut", "InProgress",
     "InvocationDoesNotExist", "ThrottlingException", "Exception"}

\* a polling script: `pre` for the first n polls, `fin` from then on
Scripts ==
    [n : 0 .. MaxPre,
     pre : {"InProgress", "InvocationDoesNotExist", "ThrottlingException"},
     fin : PollResponses]

Response(script, k) == IF k <= script.n THEN script.pre ELSE script.fin

\* the while loop of one attempt, from its state (waited, attempt_count)
RECURSIVE poll_loop(_, _, _, _)
poll_loop(script, max_wait, waited, attempt_count) ==
    IF ~(waited < max_wait /\ attempt_count < max_attempts)
    THEN [end |-> "exhausted", waited |-> waited, polls |-> attempt_count]
    ELSE LET polls == attempt_count + 1
             r == Response(script, polls)
         IN  CASE r = "Success" ->
                    [end |-> "Success", waited |-> waited, polls |-> polls]
               [] r \in {"Failed", "Cancelled", "TimedOut"} ->
                    [end |-> "RemoteFailure", waited |-> waited, polls |-> polls]
               [] r = "InProgress" ->
                    poll_loop(script, max_wait, waited + 3, polls)
               [] r = "InvocationDoesNotExist" ->
                    poll_loop(script, max_wait, waited + 2, polls)
               [] r = "ThrottlingException" ->
                    poll_loop(script, max_wait, waited + 2, polls)
               [] r = "Exception" ->
                    [end |-> "PollException", waited |-> waited, polls |-> polls]

\* the timeout_seconds of a polling loop: the default, and one large enough
\* for the ceiling on the number of polls to be reached
PollTimeouts == {120, 400}

\* no polling loop is observed
IdlePoll == [pc |-> "idle", max_wait |-> 0, waited |-> 0, attempt_count |-> 0, end |-> None]

\* max_wait = timeout_seconds + 30; waited = 0; attempt_count = 0
NewPoll(timeout) ==
    [pc |-> "polling", max_wait |-> timeout + 30, waited |-> 0, attempt_count |-> 0,
     end |-> None]

loop_condition_wait_only(p) == p.waited < p.max_wait

\* while waited < max_wait and attempt_count < max_attempts
loop_condition(p) == p.waited < p.max_wait /\ p.attempt_count < max_attempts

\* one iteration of the polling loop: get_command_invocation answers r
Poll(r) ==
    /\ poll.pc = "polling"
    /\ loop_condition(poll)
    /\ LET p == [poll EXCEPT !.attempt_count = @ + 1]
       IN  poll' =
             CASE r = "Success" -> [p EXCEPT !.pc = "ended", !.end = "Success"]
               [] r \in {"Failed", "Cancelled", "TimedOut"} ->
                    [p EXCEPT !.pc = "ended", !.end = "RemoteFailure"]
               [] r = "InProgress" -> [p EXCEPT !.waited = @ + 3]
               [] r = "InvocationDoesNotExist" -> [p EXCEPT !.waited = @ + 2]
               [] r = "ThrottlingException" -> [p EXCEPT !.waited = @ + 2]
               [] r = "Exception" -> [p EXCEPT !.pc = "ended", !.end = "PollException"]
    /\ UNCHANGED <<cacheVars, runVars, worker>>

\* the loop condition is false: the code after the loop runs
PollExit ==
    /\ poll.pc = "polling"
    /\ ~loop_condition(poll)
    /\ poll' = [poll EXCEPT !.pc = "ended", !.end = "exhausted"]
    /\ UNCHANGED <<cacheVars, runVars, worker>>

\* the ways the polling of one attempt can end, per timeout_seconds
PollEnds ==
    [t \in TimeoutChoices |-> {poll_loop(s, t + 30, 0, 0).end : s \in Scripts}]

\* what send_command may do
SendOutcomes == {"ok", "ClientError", "Exception"}

\* what may happen in one pass of the retry loop: send_command raises, or it
\* returns and the polling ends in one of the ways it can
AttemptEvents(timeout) ==
    {[send |-> s, end |-> None] : s \in SendOutcomes \ {"ok"}} \cup
    {[send |-> "ok", end |-> e] : e \in PollEnds[timeout]}

Continue == [ret |-> FALSE, status |-> None, error |-> None]

Return(status, error) == [ret |-> TRUE, status |-> status, error |-> error]

attempt_outcome_gives_up(attempt, send, end) ==
    CASE send # "ok" -> Return("FAILED", "error")
      [] send = "ok" /\ end = "Success" -> Return("SUCCESS", "")
      [] send = "ok" /\ end = "exhausted" -> Return("TIMEOUT", "Command timed out")
      [] OTHER -> Return("FAILED", "error")

attempt_outcome_escalating(attempt, send, end) ==
    CASE send # "ok" ->
            IF attempt < max_retries THEN Continue ELSE Return("FAILED", "error")
      [] send = "ok" /\ end = "Success" ->
            Return("SUCCESS", "")
      [] send = "ok" /\ end # "Success" ->
            IF attempt < max_retries THEN Continue ELSE Return("FAILED", "error")

attempt_outcome_falls_through(attempt, send, end) ==
    CASE send = "ClientError" ->
            IF attempt < max_retries THEN Continue ELSE Return("FAILED", "error")
      [] send = "Exception" -> Continue
      [] send = "ok" /\ end = "Success" ->
            Return("SUCCESS", "")
      [] send = "ok" /\ end = "RemoteFailure" ->
            IF attempt < max_retries THEN Continue ELSE Return("FAILED", "error")
      [] send = "ok" /\ end = "exhausted" -> Continue
      [] send = "ok" /\ end = "PollException" ->
            IF attempt < max_retries THEN Continue ELSE Return("FAILED", "error")

\* the body of the retry loop for one attempt: a result is returned, or the
\* loop goes round (continue)
attempt_outcome(attempt, send, end) ==
    CASE send = "ClientError" ->
            IF attempt < max_retries THEN Continue ELSE Return("FAILED", "error")
      [] send = "Exception" ->
            IF attempt < max_retries THEN Continue ELSE Return("FAILED", "error")
      [] send = "ok" /\ end = "Success" ->
            Return("SUCCESS", "")
      [] send = "ok" /\ end = "RemoteFailure" ->
            IF attempt < max_retries THEN Continue ELSE Return("FAILED", "error")
      [] send = "ok" /\ end = "exhausted" ->
            IF attempt < max_retries THEN Continue ELSE Return("TIMEOUT", "Command timed out")
      [] send = "ok" /\ end = "PollException" ->
            IF attempt < max_retries THEN Continue ELSE Return("FAILED", "error")

-----------------------------------------------------------------------------
(* execute_on_instance with its clock.  Time is what the time.sleep calls  *)
(* of the worker take: the calls to SSM are taken to return at once.       *)

\* no call is observed
IdleWorker ==
    [pc |-> "idle", attempt |-> 0, clock |-> 0, start_time |-> 0,
     status |-> None, execution_time |-> 0]

\* execute_on_instance is entered; clock is the time since then
NewWorker == [IdleWorker EXCEPT !.pc = "loop"]

\* start_time = time.time(), the first statement of every pass of the retry loop
start_time_of_pass(w) == w.clock

\* one pass of the retry loop: start_time is taken, the backoff sleep, then
\* send_command and the polling loop; the pass returns a result with
\* execution_time = time.time() - start_time, or the loop goes round
WorkerPass(send, script) ==
    /\ worker.pc = "loop"
    /\ LET start_time == start_time_of_pass(worker)
           slept == IF worker.attempt > 0 THEN retry_delay(worker.attempt) ELSE 0
           p == poll_loop(script, timeout_seconds + 30, 0, 0)
           time == worker.clock + slept + (IF send = "ok" THEN p.waited ELSE 0)
           o == attempt_outcome(worker.attempt, send, IF send = "ok" THEN p.end ELSE None)
       IN  worker' =
             IF o.ret
             THEN [worker EXCEPT !.pc = "returned", !.clock = time,
                                 !.start_time = start_time, !.status = o.status,
                                 !.execution_time = time - start_time]
             ELSE [worker EXCEPT !.attempt = @ + 1, !.clock = time,
                                 !.start_time = start_time]
    /\ UNCHANGED <<cacheVars, runVars, poll>>

-----------------------------------------------------------------------------
(* execute_batch_command *)

no_targets_never(validated_instances) == FALSE

\* `not validated_instances`
no_targets(validated_instances) == validated_instances = <<>>

\* max_concurrent = min(len(validated_instances), 5)
max_concurrent(validated_instances) ==
    IF Len(validated_instances) < 5 THEN Len(validated_instances) ELSE 5

success_count(results) ==
    Cardinality({i \in DOMAIN results : results[i].status = "SUCCESS"})

failed_count(results) == Len(results) - success_count(results)

\* the results with status != 'SUCCESS', in order
failed_results(results) ==
    LET Failed(r) == r.status # "SUCCESS" IN SelectSeq(results, Failed)

\* next(inst for inst in validated_instances if inst id == instance_id) finds one
has_match(validated_instances, instance_id) ==
    \E i \in DOMAIN validated_instances :
        validated_instances[i].InstanceId = instance_id

\* next(inst for inst in validated_instances if inst id == instance_id)
first_match(validated_instances, instance_id) ==
    LET Match(i) == validated_instances[i].InstanceId = instance_id
    IN  validated_instances[CHOOSE i \in DOMAIN validated_instances :
                                Match(i) /\ \A j \in 1 .. i - 1 : ~Match(j)]

failed_instances_failed_only(validated_instances, results) ==
    LET Failed(r) == r.status = "FAILED"
        f == SelectSeq(results, Failed)
    IN  [k \in 1 .. Len(f) |-> first_match(validated_instances, f[k].instance_id)]

\* failed_instances: for each result with status != 'SUCCESS', in order, the
\* first validated instance with its id
failed_instances(validated_instances, results) ==
    LET f == failed_results(results)
    IN  [k \in 1 .. Len(f) |-> first_match(validated_instances, f[k].instance_id)]

replace_one_appending(results, retry_result) == Append(results, retry_result)

\* the inner loop of the replacement: the first entry with the id is replaced
replace_one(results, retry_result) ==
    LET Match(i) == results[i].instance_id = retry_result.instance_id
    IN  IF \E i \in DOMAIN results : Match(i)
        THEN LET i == CHOOSE i \in DOMAIN results :
                          Match(i) /\ \A j \in 1 .. i - 1 : ~Match(j)
             IN  [results EXCEPT ![i] = retry_result]
        ELSE results

replace_results_rebuilding(results, retry_results) ==
    LET Succeeded(r) == r.status = "SUCCESS"
    IN  SelectSeq(results, Succeeded) \o retry_results

\* for retry_result in retry_results: ...
replace_results(results, retry_results) ==
    LET R[k \in 0 .. Len(retry_results)] ==
            IF k = 0 THEN results ELSE replace_one(R[k - 1], retry_results[k])
    IN  R[Len(retry_results)]

\* save_results_history: the file after the call; a failure is logged only
save_results_history(history, save_ok) ==
    IF save_ok THEN Last(history, history_keep) ELSE disk

\* `return value` of the call whose locals are cur
ReturnToCaller(cur, value) ==
    IF stack = <<>>
    THEN /\ frame' = [cur EXCEPT !.pc = "returned"]
         /\ stack' = stack
    ELSE /\ frame' = [stack[Len(stack)] EXCEPT !.pc = "replace", !.retry_results = value]
         /\ stack' = SubSeq(stack, 1, Len(stack) - 1)

FinishSaveRaises(cur, save_ok) ==
    /\ results_history' = results_history \o cur.results
    /\ disk' = save_results_history(results_history \o cur.results, save_ok)
    /\ IF save_ok
       THEN ReturnToCaller([cur EXCEPT !.saved = "ok"], cur.results)
       ELSE /\ frame' = [cur EXCEPT !.pc = "raised", !.saved = "failed"]
            /\ stack' = stack

\* results_history.extend(results); save_results_history(); return results
Finish(cur, save_ok) ==
    /\ results_history' = results_history \o cur.results
    /\ disk' = save_results_history(results_history \o cur.results, save_ok)
    /\ ReturnToCaller([cur EXCEPT !.saved = IF save_ok THEN "ok" ELSE "failed"],
                      cur.results)

\* _validate_ssm_instances and the empty check; the pool is created
Preflight(resp) ==
    /\ frame.pc = "preflight"
    /\ resp \in SsmResponses(frame.instances)
    /\ LET v == validate_ssm_instances(frame.instances, resp)
           cur == [frame EXCEPT !.ssm_response = resp, !.validated_instances = v]
       IN  IF no_targets(v)
           THEN ReturnToCaller(cur, <<>>)
           ELSE /\ frame' = [cur EXCEPT
                               !.pc = IF max_concurrent(v) = 0 THEN "raised" ELSE "pool",
                               !.fut = [i \in DOMAIN v |-> NewFuture]]
                /\ stack' = stack
    /\ UNCHANGED <<cacheVars, poll, worker, timeout_seconds, dispatched, results_history, disk>>

StartUncapped(i, client_ok) ==
    /\ frame.pc = "pool"
    /\ i \in DOMAIN frame.fut
    /\ frame.fut[i].st = "queued"
    /\ \A j \in 1 .. i - 1 : frame.fut[j].st # "queued"
    /\ frame' = [frame EXCEPT !.fut[i].st = IF client_ok THEN "running" ELSE "raised"]
    /\ UNCHANGED <<cacheVars, poll, worker, stack, timeout_seconds, dispatched, results_history, disk>>

\* a pool thread takes the next submitted call; session.client() may raise
Start(i, client_ok) ==
    /\ frame.pc = "pool"
    /\ i \in DOMAIN frame.fut
    /\ frame.fut[i].st = "queued"
    /\ \A j \in 1 .. i - 1 : frame.fut[j].st # "queued"
    /\ Cardinality({j \in DOMAIN frame.fut : frame.fut[j].st = "running"})
          < max_concurrent(frame.validated_instances)
    /\ frame' = [frame EXCEPT !.fut[i].st = IF client_ok THEN "running" ELSE "raised"]
    /\ UNCHANGED <<cacheVars, poll, worker, stack, timeout_seconds, dispatched, results_history, disk>>

\* one pass of the retry loop: send_command, the polling loop, the handlers
Attempt(i, send, end) ==
    /\ frame.pc = "pool"
    /\ i \in DOMAIN frame.fut
    /\ frame.fut[i].st = "running"
    /\ LET f == frame.fut[i]
           id == frame.validated_instances[i].InstanceId
           o == attempt_outcome(f.attempt, send, end)
       IN  /\ dispatched' = dispatched \cup {id}
           /\ frame' = [frame EXCEPT !.fut[i] =
                  IF o.ret
                  THEN [f EXCEPT !.st = "done",
                                 !.slept = @ \o sleeps_before(f.attempt),
                                 !.event = [send |-> send, end |-> end],
                                 !.result = BatchJobResult(id, o.status, o.error)]
                  ELSE IF f.attempt + 1 \in attempts_range
                       THEN [f EXCEPT !.attempt = f.attempt + 1,
                                      !.slept = @ \o sleeps_before(f.attempt)]
                       ELSE [f EXCEPT !.st = "done",
                                      !.slept = @ \o sleeps_before(f.attempt),
                                      !.result = NoneResult]]
    /\ UNCHANGED <<cacheVars, poll, worker, stack, timeout_seconds, results_history, disk>>

CollectDropsRaised(i) ==
    /\ frame.pc = "pool"
    /\ i \in DOMAIN frame.fut
    /\ frame.fut[i].st \in {"done", "raised"}
    /\ ~frame.fut[i].collected
    /\ frame' = [frame EXCEPT
           !.fut[i] = ConsumedFuture,
           !.results = IF frame.fut[i].st = "raised" THEN @
                       ELSE Append(@, frame.fut[i].result)]
    /\ UNCHANGED <<cacheVars, poll, worker, stack, timeout_seconds, dispatched, results_history, disk>>

CollectReraises(i) ==
    /\ frame.pc = "pool"
    /\ i \in DOMAIN frame.fut
    /\ frame.fut[i].st \in {"done", "raised"}
    /\ ~frame.fut[i].collected
    /\ frame' = IF frame.fut[i].st = "raised"
                THEN [frame EXCEPT !.pc = "raised"]
                ELSE [frame EXCEPT !.fut[i] = ConsumedFuture,
                                   !.results = Append(@, frame.fut[i].result)]
    /\ UNCHANGED <<cacheVars, poll, worker, stack, timeout_seconds, dispatched, results_history, disk>>

\* one round of the as_completed loop
Collect(i) ==
    /\ frame.pc = "pool"
    /\ i \in DOMAIN frame.fut
    /\ frame.fut[i].st \in {"done", "raised"}
    /\ ~frame.fut[i].collected
    /\ LET id == frame.validated_instances[i].InstanceId
           error_result == BatchJobResult(id, "FAILED", "Executor error")
       IN  frame' = [frame EXCEPT
               !.fut[i] = ConsumedFuture,
               !.results =
                   IF frame.fut[i].st = "raised"
                   THEN Append(@, error_result)
                   ELSE IF frame.fut[i].result = NoneResult
                        THEN @ \o <<NoneResult, error_result>>
                        ELSE Append(@, frame.fut[i].result)]
    /\ UNCHANGED <<cacheVars, poll, worker, stack, timeout_seconds, dispatched, results_history, disk>>

\* the as_completed loop has ended
all_collected ==
    /\ frame.pc = "pool"
    /\ \A i \in DOMAIN frame.fut : frame.fut[i].collected

\* failed_count = 0: the results are stored and returned
NoFailures(save_ok) ==
    /\ all_collected
    /\ failed_count(frame.results) = 0
    /\ Finish(frame, save_ok)
    /\ UNCHANGED <<cacheVars, poll, worker, timeout_seconds, dispatched>>

\* failed_count > 0 and the answer is 'y': the failed instances are run again
PromptYes ==
    /\ all_collected
    /\ failed_count(frame.results) > 0
    /\ Len(stack) < MaxDepth
    /\ IF \A k \in DOMAIN frame.results :
             frame.results[k].status # "SUCCESS"
                => has_match(frame.validated_instances, frame.results[k].instance_id)
       THEN /\ stack' = Append(stack, [frame EXCEPT !.pc = "redrive",
                                                    !.retry_choice = "y",
                                                    !.pass_results = frame.results,
                                                    !.fut = <<>>])
            /\ frame' = NewFrame(failed_instances(frame.validated_instances, frame.results))
       ELSE /\ frame' = [frame EXCEPT !.pc = "raised"]
            /\ stack' = stack
    /\ UNCHANGED <<cacheVars, poll, worker, timeout_seconds, dispatched, results_history, disk>>

PromptNoRedrives(save_ok) ==
    /\ all_collected
    /\ failed_count(frame.results) > 0
    /\ Len(stack) < MaxDepth
    /\ stack' = Append(stack, [frame EXCEPT !.pc = "redrive",
                                            !.retry_choice = "n",
                                            !.pass_results = frame.results,
                                            !.fut = <<>>])
    /\ frame' = NewFrame(failed_instances(frame.validated_instances, frame.results))
    /\ UNCHANGED <<cacheVars, poll, worker, timeout_seconds, dispatched, results_history, disk>>

\* failed_count > 0 and the answer is not 'y'
PromptNo(save_ok) ==
    /\ all_collected
    /\ failed_count(frame.results) > 0
    /\ IF \A k \in DOMAIN frame.results :
             frame.results[k].status # "SUCCESS"
                => has_match(frame.validated_instances, frame.results[k].instance_id)
       THEN Finish([frame EXCEPT !.retry_choice = "n"], save_ok)
       ELSE /\ frame' = [frame EXCEPT !.pc = "raised"]
            /\ UNCHANGED <<stack, results_history, disk>>
    /\ UNCHANGED <<cacheVars, poll, worker, timeout_seconds, dispatched>>

\* the re-drive has returned: the replacement loop, then store and return
Replace(save_ok) ==
    /\ frame.pc = "replace"
    /\ Finish([frame EXCEPT !.results = replace_results(frame.results, frame.retry_results)],
              save_ok)
    /\ UNCHANGED <<cacheVars, poll, worker, timeout_seconds, dispatched>>

-----------------------------------------------------------------------------
(* The cache specification *)

Init ==
    /\ poll = IdlePoll
    /\ frame = IdleFrame
    /\ stack = <<>>
    /\ timeout_seconds = 120
    /\ dispatched = {}
    /\ results_history = <<>>
    /\ disk = <<>>
    /\ now = 0
    /\ cache = EmptyDict
    /\ background_refresh_active = {}
    /\ thr = [t \in Threads |-> IdleThread]
    /\ fn_calls = [k \in Keys |-> 0]
    /\ skipped_calls = {}
    /\ set_log = EmptyDict
    /\ caller = IdleCaller
    /\ worker = IdleWorker

NextCache ==
    \/ \E k \in Keys : Get(k)
    \/ \E k \in Keys, v \in Values, a \in TtlArgs : Set(k, v, a)
    \/ \E k \in Keys : Invalidate(k)
    \/ Clear
    \/ \E k \in Keys : StartRefresh(k)
    \/ \E t \in Threads : WorkerStep(t)
    \/ \E d \in TickSteps : Tick(d)

SpecCache == Init /\ [][NextCache]_vars

\* the same calls, with callers that set one payload under the policy TTL
NextCacheLive ==
    \/ \E k \in Keys : Get(k)
    \/ \E k \in Keys : Set(k, "v1", <<>>)
    \/ \E k \in Keys : Invalidate(k)
    \/ Clear
    \/ \E k \in Keys : StartRefresh(k)
    \/ \E t \in Threads : WorkerStep(t)
    \/ \E d \in TickSteps : Tick(d)

\* the threads are scheduled and every refresh_func call ends
LiveCache == Init /\ [][NextCacheLive]_vars /\ \A t \in Threads : WF_vars(WorkerStep(t))

-----------------------------------------------------------------------------
(* The batch specification *)

\* one call of execute_batch_command from the batch menu
InitBatch ==
    /\ \E instances \in InstanceLists : frame = NewFrame(instances)
    /\ poll = IdlePoll
    /\ stack = <<>>
    /\ timeout_seconds \in TimeoutChoices
    /\ dispatched = {}
    /\ results_history = <<>>
    /\ disk = <<>>
    /\ now = 0
    /\ cache = EmptyDict
    /\ background_refresh_active = {}
    /\ thr = [t \in Threads |-> IdleThread]
    /\ fn_calls = [k \in Keys |-> 0]
    /\ skipped_calls = {}
    /\ set_log = EmptyDict
    /\ caller = IdleCaller
    /\ worker = IdleWorker

NextBatch ==
    \/ frame.pc = "preflight" /\ \E resp \in SsmResponses(frame.instances) : Preflight(resp)
    \/ \E i \in 1 .. MaxTargets, client_ok \in BOOLEAN : Start(i, client_ok)
    \/ \E i \in 1 .. MaxTargets, e \in AttemptEvents(timeout_seconds) :
          Attempt(i, e.send, e.end)
    \/ \E i \in 1 .. MaxTargets : Collect(i)
    \/ \E save_ok \in BOOLEAN : NoFailures(save_ok)
    \/ PromptYes
    \/ \E save_ok \in BOOLEAN : PromptNo(save_ok)
    \/ \E save_ok \in BOOLEAN : Replace(save_ok)

SpecBatch == InitBatch /\ [][NextBatch]_vars

\* list_instances called again and again while the refresh threads run
NextRead ==
    \/ \E k \in ReadKeys, force_refresh \in BOOLEAN : ListInstances(k, force_refresh)
    \/ CallerGet
    \/ CallerRefresh
    \/ \E v \in Fetched : CallerFetchReturn(v)
    \/ CallerFetchRaise
    \/ CallerSet
    \/ \E t \in Threads : WorkerStep(t)
    \/ \E d \in TickSteps : Tick(d)

SpecRead == Init /\ [][NextRead]_vars

\* one execute_on_instance call, pass by pass, with the default timeout
InitTimed ==
    /\ worker = NewWorker
    /\ poll = IdlePoll
    /\ frame = IdleFrame
    /\ stack = <<>>
    /\ timeout_seconds = 120
    /\ dispatched = {}
    /\ results_history = <<>>
    /\ disk = <<>>
    /\ now = 0
    /\ cache = EmptyDict
    /\ background_refresh_active = {}
    /\ thr = [t \in Threads |-> IdleThread]
    /\ fn_calls = [k \in Keys |-> 0]
    /\ skipped_calls = {}
    /\ set_log = EmptyDict
    /\ caller = IdleCaller

NextTimed == \E send \in SendOutcomes, script \in Scripts : WorkerPass(send, script)

SpecTimed == InitTimed /\ [][NextTimed]_vars

\* the instance menu: list_instances and the refresh option, with
\* _fetch_instances as the fetch function of the caller and of the workers
NextMenu ==
    \/ \E k \in ReadKeys, force_refresh \in BOOLEAN : ListInstances(k, force_refresh)
    \/ CallerGet
    \/ CallerRefresh
    \/ \E up \in UpstreamOutcomes : CallerFetchReturn(fetch_instances(up))
    \/ CallerFetchRaise
    \/ CallerSet
    \/ \E k \in ReadKeys : MenuRefresh(k)
    \/ \E t \in Threads, up \in UpstreamOutcomes : FetchReturn(t, fetch_instances(up))
    \/ \E t \in Threads : FetchRaise(t)
    \/ \E t \in Threads : Commit(t)
    \/ \E t \in Threads : Finally(t)
    \/ \E d \in TickSteps : Tick(d)

SpecMenu == Init /\ [][NextMenu]_vars

\* set() alone, over more keys and TTL arguments
NextTtl == \E k \in TtlKeys, a \in TtlArgsWide : Set(k, "v1", a)

SpecTtl == Init /\ [][NextTtl]_vars

\* the resource classes of the TTL policy: every key of CACHE_TTLS but 'default'
PolicyClasses == DOMAIN CACHE_TTLS \ {"default"}

\* c.split('_') for the class names of CACHE_TTLS
class_parts(c) ==
    CASE c = "cloudwatch_dashboards" -> <<"cloudwatch", "dashboards">>
      [] c = "cloudwatch_alarms" -> <<"cloudwatch", "alarms">>
      [] c = "cloudwatch_logs" -> <<"cloudwatch", "logs">>
      [] c = "s3_buckets" -> <<"s3", "buckets">>
      [] c = "s3_objects" -> <<"s3", "objects">>
      [] OTHER -> <<c>>

\* the key f"{c}_{profile}_{region}" for profile 'p' and region 'r1', as its parts
policy_key(c) == class_parts(c) \o <<"p", "r1">>

\* set(key, v) without ttl_seconds, for the key of every class of the policy
NextPolicy == \E c \in PolicyClasses : Set(policy_key(c), "v1", <<>>)

SpecPolicy == Init /\ [][NextPolicy]_vars

-----------------------------------------------------------------------------
(* One worker: a run for a single instance, without re-drive *)

InitWorker ==
    /\ \E t \in InstanceUniverse : frame = NewFrame(<<t>>)
    /\ poll = IdlePoll
    /\ stack = <<>>
    /\ timeout_seconds \in TimeoutChoices
    /\ dispatched = {}
    /\ results_history = <<>>
    /\ disk = <<>>
    /\ now = 0
    /\ cache = EmptyDict
    /\ background_refresh_active = {}
    /\ thr = [t \in Threads |-> IdleThread]
    /\ fn_calls = [k \in Keys |-> 0]
    /\ skipped_calls = {}
    /\ set_log = EmptyDict
    /\ caller = IdleCaller
    /\ worker = IdleWorker

NextWorker ==
    \/ frame.pc = "preflight" /\ \E resp \in SsmResponses(frame.instances) : Preflight(resp)
    \/ \E client_ok \in BOOLEAN : Start(1, client_ok)
    \/ \E e \in AttemptEvents(timeout_seconds) : Attempt(1, e.send, e.end)
    \/ Collect(1)
    \/ \E save_ok \in BOOLEAN : NoFailures(save_ok)
    \/ \E save_ok \in BOOLEAN : PromptNo(save_ok)

SpecWorker == InitWorker /\ [][NextWorker]_vars

-----------------------------------------------------------------------------
(* A run with more targets than pool threads, every command succeeding *)

\* the selection "1,2,1,2,...": two instances of one region, in turn
PoolList ==
    [k \in 1 .. PoolTargets |->
        IF k % 2 = 1 THEN [InstanceId |-> "i-a", Region |-> "r1"]
                     ELSE [InstanceId |-> "i-b", Region |-> "r1"]]

InitPool ==
    /\ frame = NewFrame(PoolList)
    /\ poll = IdlePoll
    /\ stack = <<>>
    /\ timeout_seconds \in TimeoutChoices
    /\ dispatched = {}
    /\ results_history = <<>>
    /\ disk = <<>>
    /\ now = 0
    /\ cache = EmptyDict
    /\ background_refresh_active = {}
    /\ thr = [t \in Threads |-> IdleThread]
    /\ fn_calls = [k \in Keys |-> 0]
    /\ skipped_calls = {}
    /\ set_log = EmptyDict
    /\ caller = IdleCaller
    /\ worker = IdleWorker

NextPool ==
    \/ frame.pc = "preflight" /\ \E resp \in SsmResponses(frame.instances) : Preflight(resp)
    \/ \E i \in 1 .. PoolTargets : Start(i, TRUE)
    \/ \E i \in 1 .. PoolTargets : Attempt(i, "ok", "Success")
    \/ \E i \in 1 .. PoolTargets : Collect(i)
    \/ \E save_ok \in BOOLEAN : NoFailures(save_ok)

SpecPool == InitPool /\ [][NextPool]_vars

-----------------------------------------------------------------------------
(* A run of a session whose earlier runs have filled the history *)

\* the lengths of results_history when the run starts
HistoryStarts == {0, 99, 100}

\* the results of earlier runs, the oldest first
OldHistory(n) ==
    [k \in 1 .. n |->
        [instance_id |-> "i-a", status |-> "SUCCESS", error |-> "", timestamp |-> k - n - 1]]

InitHistory ==
    /\ frame = NewFrame(<<[InstanceId |-> "i-a", Region |-> "r1"],
                          [InstanceId |-> "i-b", Region |-> "r1"]>>)
    /\ \E n \in HistoryStarts :
          /\ results_history = OldHistory(n)
          /\ disk = OldHistory(n)
    /\ poll = IdlePoll
    /\ stack = <<>>
    /\ timeout_seconds \in TimeoutChoices
    /\ dispatched = {}
    /\ now = 0
    /\ cache = EmptyDict
    /\ background_refresh_active = {}
    /\ thr = [t \in Threads |-> IdleThread]
    /\ fn_calls = [k \in Keys |-> 0]
    /\ skipped_calls = {}
    /\ set_log = EmptyDict
    /\ caller = IdleCaller
    /\ worker = IdleWorker

SpecHistory == InitHistory /\ [][NextBatch]_vars

-----------------------------------------------------------------------------
(* The polling loop of one attempt, poll by poll *)

InitPoll ==
    /\ \E t \in PollTimeouts : poll = NewPoll(t)
    /\ frame = IdleFrame
    /\ stack = <<>>
    /\ timeout_seconds = 120
    /\ dispatched = {}
    /\ results_history = <<>>
    /\ disk = <<>>
    /\ now = 0
    /\ cache = EmptyDict
    /\ background_refresh_active = {}
    /\ thr = [t \in Threads |-> IdleThread]
    /\ fn_calls = [k \in Keys |-> 0]
    /\ skipped_calls = {}
    /\ set_log = EmptyDict
    /\ caller = IdleCaller
    /\ worker = IdleWorker

NextPoll ==
    \/ \E r \in PollResponses : Poll(r)
    \/ PollExit

SpecPoll == InitPoll /\ [][NextPoll]_vars

\* every get_command_invocation call and every sleep returns
LivePoll == InitPoll /\ [][NextPoll]_vars /\ WF_vars(NextPoll)

-----------------------------------------------------------------------------
(* Properties of the cache *)

\* C1: for every key at most one background refresh is in flight: while a
\* refresh of a key has not completed, a further start_background_refresh of
\* that key returns without invoking refresh_func, so refresh_func has been
\* invoked exactly once since the key was marked.
OneRefreshPerKey ==
    \A k \in Keys :
        /\ Cardinality(LiveThreads(k)) <= 1
        /\ fn_calls[k] <= 1
        /\ LiveThreads(k) # {} => k \in background_refresh_active /\ fn_calls[k] = 1

\* a call was skipped for a key in flight while another key is being refreshed too
OneRefreshPerKeyWitness ==
    \E k1, k2 \in Keys :
        /\ k1 # k2
        /\ k1 \in skipped_calls
        /\ LiveThreads(k1) # {} /\ fn_calls[k1] = 1
        /\ \E t \in LiveThreads(k2) : thr[t].pc = "fetching"

\* C2: every refresh that was started (a worker thread exists for the key)
\* eventually clears the in-flight marker of its key, whether refresh_func
\* returned or raised.
RefreshClearsMarker ==
    \A k \in Keys : (LiveThreads(k) # {}) ~> (k \notin background_refresh_active)

\* a worker whose refresh_func raised, with its key still marked
RefreshClearsMarkerWitness ==
    \E t \in Threads : thr[t].pc = "failed" /\ thr[t].key \in background_refresh_active

\* C3: the steps of a worker whose refresh_func raised (the raise, and the
\* finally block) leave every entry unchanged, so get(key) returns what it
\* returned before.
FailedRefreshKeepsEntry ==
    [][\A t \in Threads : \A k \in Keys :
          ( /\ thr[t].key = k
            /\ \/ thr[t].pc = "fetching" /\ thr'[t].pc = "failed"
               \/ thr[t].pc = "failed" /\ thr'[t].pc = "idle" )
          => cache' = cache /\ get(k)' = get(k)]_vars

\* a worker whose refresh_func raised while its key holds a live entry
FailedRefreshKeepsEntryWitness ==
    \E t \in Threads : thr[t].pc = "failed" /\ get(thr[t].key) # None

\* C4: while set(key, v, T) is the last write of key, get(key) returns v as
\* long as the time elapsed since the set is at most T and None once it is
\* greater than T; an entry older than its TTL is never returned.
TtlHit ==
    /\ \A k \in DOMAIN set_log :
          set_log[k].ttl # <<>> =>
             /\ now - set_log[k].at <= set_log[k].ttl[1] => get(k) = set_log[k].v
             /\ now - set_log[k].at > set_log[k].ttl[1] => get(k) = None
    /\ \A k \in DOMAIN cache :
          now - cache[k].timestamp > cache[k].ttl_seconds => get(k) = None

\* one key exactly at its TTL (still a hit), another past its TTL
TtlHitWitness ==
    \E k1, k2 \in DOMAIN set_log :
        /\ set_log[k1].ttl # <<>> /\ set_log[k2].ttl # <<>>
        /\ now - set_log[k1].at = set_log[k1].ttl[1]
        /\ now - set_log[k2].at > set_log[k2].ttl[1]
        /\ k2 \in DOMAIN cache

\* C21: a refresh worker does not hold the cache lock while its fetch
\* function runs: in every state in which a fetch is still running, the
\* fetching thread does not own the lock, and get, set, invalidate and clear
\* called by another thread on any key, and start_background_refresh of any
\* key, can enter the lock and complete.
FetchOutsideLock ==
    (\E t \in Threads : thr[t].pc = "fetching") =>
        /\ \A t \in Threads : thr[t].pc = "fetching" => ~thr[t].holds_lock
        /\ \A k \in Keys :
              /\ ENABLED Get(k)
              /\ ENABLED Invalidate(k)
              /\ ENABLED StartRefresh(k)
              /\ \A v \in Values, a \in TtlArgs : ENABLED Set(k, v, a)
        /\ ENABLED Clear

\* a fetch is running for a key while another call that takes the lock for
\* the same key has returned, and the other key was set in the meantime
FetchOutsideLockWitness ==
    \E t \in Threads :
        /\ thr[t].pc = "fetching"
        /\ thr[t].key \in skipped_calls
        /\ thr[t].key \notin DOMAIN cache
        /\ \E k \in DOMAIN cache : k # thr[t].key

\* start_background_refresh, called by list_instances, marks the key and returns
RefreshCallReturns ==
    /\ caller.pc = "hit"
    /\ caller'.pc = "returned"
    /\ caller.key \notin background_refresh_active

\* thread t handles an exception of refresh_func: the raise, then the finally block
HandlesRaise(t) ==
    \/ thr[t].pc = "fetching" /\ thr'[t].pc = "failed"
    \/ thr[t].pc = "failed" /\ thr'[t].pc # "failed"

\* C22: start_background_refresh returns to its caller without waiting for
\* the fetch function: when the call that marked the key returns, the
\* worker of the key is still in its fetch and no entry has changed. An
\* exception of the fetch function is handled inside the worker: the steps
\* that handle it leave the calling thread where it was, and the worker
\* ends normally.
RefreshFireAndForget ==
    /\ [][RefreshCallReturns =>
            /\ \E t \in Threads :
                  /\ thr[t].pc = "idle"
                  /\ thr'[t].pc = "fetching"
                  /\ thr'[t].key = caller.key
            /\ cache' = cache
            /\ caller'.ret = caller.cached_data]_vars
    /\ [][\A t \in Threads :
            HandlesRaise(t) => caller' = caller /\ thr'[t].pc \in {"failed", "idle"}]_vars

\* list_instances has returned the cached value while the fetch of the worker
\* it started has raised and the worker has not ended yet
RefreshFireAndForgetWitness ==
    /\ caller.pc = "returned"
    /\ caller.ret = caller.cached_data
    /\ caller.instances = None
    /\ \E t \in Threads : thr[t].pc = "failed" /\ thr[t].key = caller.key

\* list_instances returns in this step
CallerReturns == caller.pc # "returned" /\ caller'.pc = "returned"

\* the call that returns was served by a cache hit: no forced refresh and
\* get(cache_key) returned the data of an entry
ServedByHit == ~caller'.force_refresh /\ caller'.cached_data # None

\* C30: list_instances is a read-through caller. On a cache hit without a
\* forced refresh it returns the cached value, makes no synchronous fetch
\* and has called start_background_refresh for the key, which is marked in
\* flight when the call returns; on a miss or a forced refresh it returns
\* the value it fetched synchronously, and the key holds that value.
ReadThrough ==
    [][CallerReturns =>
         IF ServedByHit
         THEN /\ caller'.ret = caller'.cached_data
              /\ caller'.instances = None
              /\ caller'.key \in background_refresh_active'
              /\ cache' = cache
         ELSE /\ caller'.instances # None
              /\ caller'.ret = caller'.instances
              /\ caller'.key \in DOMAIN cache'
              /\ cache'[caller'.key].data = caller'.instances]_vars

\* the resource-class prefix of a key: the text before its first '_'
Prefix(key) == key[1]

-----------------------------------------------------------------------------
(* Properties of the batch executor *)

\* the ids of a list of instances
InstanceIds(instances) == [i \in DOMAIN instances |-> instances[i].InstanceId]

\* the ids of a list of results
ResultIds(results) == [i \in DOMAIN results |-> results[i].instance_id]

\* the calls in progress, the outermost first
Calls == Append(stack, frame)

\* C5: in every batch run the number of results equals the number of
\* validated targets, whatever mix of attempts succeeded, failed, timed out
\* or raised, a worker raising outside its own handlers included: while the
\* pool is collected there is one result per consumed future, and from the
\* end of the collection to the return one result per validated target.
BatchResultsComplete ==
    \A c \in DOMAIN Calls :
        LET f == Calls[c] IN
        /\ f.pc = "pool" =>
              Len(f.results) = Cardinality({i \in DOMAIN f.fut : f.fut[i].collected})
        /\ f.pc \in {"redrive", "replace", "returned"} =>
              Len(f.results) = Len(f.validated_instances)

\* a run has returned one worker's raise as a result and another's timeout
BatchResultsCompleteWitness ==
    /\ frame.pc = "returned"
    /\ \E i, j \in DOMAIN frame.results :
          /\ frame.results[i].error = "Executor error"
          /\ frame.results[j].status = "TIMEOUT"

\* a worker that has returned a result, not yet consumed
Returned(f) == f.st = "done" /\ ~f.collected

RetryCeilingState ==
    \A i \in DOMAIN frame.fut :
        LET f == frame.fut[i] IN
        /\ f.attempt <= BATCH_COMMAND_RETRY
        /\ (Returned(f) /\ f.result.status # "SUCCESS") =>
              /\ f.attempt + 1 = BATCH_COMMAND_RETRY + 1
              /\ f.result.status \in {"FAILED", "TIMEOUT"}

RetryCeilingStep ==
    \A i \in DOMAIN frame.fut :
        (frame.pc = "pool" /\ Returned(frame.fut[i]) /\ frame'.pc = "pool") =>
            frame'.fut[i] \in {frame.fut[i], ConsumedFuture}

\* C6: a target whose every attempt fails is attempted exactly
\* BATCH_COMMAND_RETRY + 1 = 4 times in one pass (the worker returns a
\* result other than SUCCESS only from pass number 4 of its retry loop), the
\* result is FAILED or TIMEOUT, and once the worker has returned no further
\* attempt is made for it in that pass.
RetryCeiling == []RetryCeilingState /\ [][RetryCeilingStep]_vars

\* a worker has returned TIMEOUT from its fourth pass
RetryCeilingWitness ==
    \E i \in DOMAIN frame.fut :
        /\ Returned(frame.fut[i])
        /\ frame.fut[i].result.status = "TIMEOUT"
        /\ frame.fut[i].attempt = BATCH_COMMAND_RETRY

\* the original result was re-driven: it is a failure and the re-drive returned
\* a result for its instance
Redriven(f, orig) ==
    /\ orig.status # "SUCCESS"
    /\ \E j \in DOMAIN f.retry_results : f.retry_results[j].instance_id = orig.instance_id

\* C7: after a manual re-drive the returned result set holds, for every
\* re-driven target, an outcome of the re-drive in place of the original
\* failure, and the unchanged original outcome for every other target.
RedriveReplaces ==
    (frame.pc = "returned" /\ frame.retry_choice = "y") =>
        /\ Len(frame.results) = Len(frame.pass_results)
        /\ \A k \in DOMAIN frame.pass_results :
              IF Redriven(frame, frame.pass_results[k])
              THEN /\ frame.results[k] \in Range(frame.retry_results)
                   /\ frame.results[k].instance_id = frame.pass_results[k].instance_id
              ELSE frame.results[k] = frame.pass_results[k]

\* C8: the result set returned, with or without a re-drive, has exactly one
\* entry per originally-validated target: the ids of the results are the ids
\* of the validated targets, each as many times.
OneEntryPerTarget ==
    frame.pc = "returned" =>
        SeqToBag(ResultIds(frame.results)) = SeqToBag(InstanceIds(frame.validated_instances))

\* a run of two validated targets has returned after a re-drive that replaced a result
OneEntryPerTargetWitness ==
    /\ frame.pc = "returned"
    /\ frame.retry_choice = "y"
    /\ Len(frame.validated_instances) = 2
    /\ frame.results # frame.pass_results

\* C9: if pre-flight validation leaves zero targets, the call returns an
\* empty result list and send_command has not been called for any target.
NoTargetsNoDispatch ==
    (frame.pc \notin {"idle", "preflight"} /\ frame.validated_instances = <<>>) =>
        /\ frame.pc = "returned"
        /\ frame.results = <<>>
        /\ dispatched = {}

\* two targets were given, every status check succeeded and none is Online
NoTargetsNoDispatchWitness ==
    /\ frame.pc = "returned"
    /\ Len(frame.instances) = 2
    /\ frame.validated_instances = <<>>
    /\ \A r \in DOMAIN frame.ssm_response : ~frame.ssm_response[r].raised

\* the status check of the target's group raised
CheckRaised(f, t) == f.ssm_response[t.Region].raised

\* a successful status check reported the target Online
ReportedOnline(f, t) ==
    /\ ~f.ssm_response[t.Region].raised
    /\ t.InstanceId \in DOMAIN f.ssm_response[t.Region].info
    /\ f.ssm_response[t.Region].info[t.InstanceId] = "Online"

\* C10: pre-flight validation returns exactly the targets of the groups whose
\* status check raised plus the targets a successful check reported Online;
\* a target a successful check reported not Online, or did not report, is
\* dropped and send_command is never called for it.
PreflightExact ==
    /\ \A c \in DOMAIN Calls :
          LET f == Calls[c]
              Kept(t) == CheckRaised(f, t) \/ ReportedOnline(f, t)
          IN  f.pc \notin {"idle", "preflight"} =>
                 SeqToBag(f.validated_instances) = SeqToBag(SelectSeq(f.instances, Kept))
    /\ LET f == Calls[1] IN
          f.pc \notin {"idle", "preflight"} =>
             \A t \in Range(f.instances) :
                 ~(CheckRaised(f, t) \/ ReportedOnline(f, t)) => t.InstanceId \notin dispatched

\* a run has ended in which one group's check raised and its target was sent
\* the command, and another group's check succeeded and dropped its target
PreflightExactWitness ==
    /\ frame.pc = "returned"
    /\ stack = <<>>
    /\ \E t1, t2 \in Range(frame.instances) :
          /\ CheckRaised(frame, t1)
          /\ t1.InstanceId \in dispatched
          /\ ~CheckRaised(frame, t2)
          /\ ~ReportedOnline(frame, t2)
          /\ t2.InstanceId \in DOMAIN frame.ssm_response[t2.Region].info
          /\ t2.InstanceId \notin dispatched

\* C11: an exception raised by a status poll, of whatever kind, is treated as
\* not-yet-terminal: the polling loop of the attempt is never ended by it
\* (it ends by a terminal status or by its ceilings only).
PollExceptionsAbsorbed ==
    poll.pc = "ended" => poll.end \in {"Success", "RemoteFailure", "exhausted"}

PollBounds ==
    /\ poll.attempt_count <= 200
    /\ poll.pc = "polling" => poll.waited < poll.max_wait + 3
    /\ poll.end = "exhausted" =>
          poll.waited >= poll.max_wait \/ poll.attempt_count = 200
    /\ poll.end \in {"Success", "RemoteFailure"} =>
          poll.waited < poll.max_wait /\ poll.attempt_count <= 200

\* C12: within one attempt the polling loop always terminates: no poll is
\* made once the accumulated wait has reached timeout_seconds + 30 or 200
\* polls have been made, the loop ends without a terminal status exactly at
\* one of these ceilings, and in every run it ends, also when every poll
\* reports a non-terminal status or raises a ClientError.
PollLoopTerminates == []PollBounds /\ <>(poll.pc = "ended")

\* the loop has ended at the ceiling of 200 polls, before its wait budget
PollLoopTerminatesWitness ==
    /\ poll.end = "exhausted"
    /\ poll.attempt_count = 200
    /\ poll.waited < poll.max_wait

\* C13: no sleep precedes a target's first attempt, and the sleep before
\* retry number k (k = 1..3) is exactly min(10 k, 60) seconds: 10, 20, 30,
\* never more than 60.  A worker about to run pass number a of its loop has
\* slept before the retries 1..a-1, a worker that returned from pass a
\* before the retries 1..a.
BackoffSleeps ==
    \A i \in DOMAIN frame.fut :
        LET f == frame.fut[i]
            retries == IF f.st = "running"
                       THEN (IF f.attempt > 0 THEN f.attempt - 1 ELSE 0)
                       ELSE f.attempt
        IN  (~f.collected /\ f.st \in {"running", "done"}) =>
               /\ Len(f.slept) = retries
               /\ \A k \in DOMAIN f.slept :
                     /\ f.slept[k] = (IF 10 * k < 60 THEN 10 * k ELSE 60)
                     /\ f.slept[k] <= 60

\* a worker has returned from its last pass after the sleeps 10, 20, 30
BackoffSleepsWitness ==
    \E i \in DOMAIN frame.fut :
        /\ Returned(frame.fut[i])
        /\ frame.fut[i].slept = <<10, 20, 30>>

\* C14: the result a worker returns is the outcome of the pass that returned
\* it, as it is: SUCCESS exactly when the remote reported Success, TIMEOUT
\* exactly when the polling exhausted its bounds without a terminal status,
\* FAILED when the remote reported a terminal failure or cancellation or
\* send_command raised; there is no other status.
OutcomeAsIs ==
    \A i \in DOMAIN frame.fut :
        LET f == frame.fut[i] IN
        Returned(f) =>
            /\ f.result.status \in {"SUCCESS", "FAILED", "TIMEOUT"}
            /\ f.result.status = "SUCCESS" <=>
                  (f.event.send = "ok" /\ f.event.end = "Success")
            /\ f.result.status = "TIMEOUT" <=>
                  (f.event.send = "ok" /\ f.event.end = "exhausted")
            /\ (f.event.send # "ok" \/ f.event.end = "RemoteFailure") =>
                  f.result.status = "FAILED"

\* a worker has returned TIMEOUT from its last pass after an exhausted polling
OutcomeAsIsWitness ==
    \E i \in DOMAIN frame.fut :
        /\ Returned(frame.fut[i])
        /\ frame.fut[i].attempt = BATCH_COMMAND_RETRY
        /\ frame.fut[i].event = [send |-> "ok", end |-> "exhausted"]
        /\ frame.fut[i].result.status = "TIMEOUT"

\* the step consumes the future i, whose worker raised
ConsumesRaised(i) ==
    /\ frame.pc = "pool"
    /\ frame.fut[i].st = "raised"
    /\ ~frame.fut[i].collected
    /\ frame'.fut[i] # frame.fut[i]

\* C15: an exception that escapes a worker is converted into a FAILED result
\* for its target that carries the exception text: the step that consumes
\* the worker's future appends this result and the call goes on, and the
\* call never ends by an exception.
WorkerExceptionConverted ==
    /\ [](frame.pc # "raised")
    /\ [][\A i \in DOMAIN frame.fut :
            ConsumesRaised(i) =>
               /\ frame'.pc = "pool"
               /\ frame'.results =
                     Append(frame.results,
                            [instance_id |-> frame.validated_instances[i].InstanceId,
                             status |-> "FAILED", error |-> "Executor error",
                             timestamp |-> Len(stack)])]_vars

\* a run has returned the converted exception of its worker
WorkerExceptionConvertedWitness ==
    /\ frame.pc = "returned"
    /\ Len(frame.results) = 1
    /\ frame.results[1].status = "FAILED"
    /\ frame.results[1].error = "Executor error"

\* the workers whose retry loop is executing
Running == {i \in DOMAIN frame.fut : frame.fut[i].st = "running"}

\* C16: during a pass the number of targets whose retry loop is executing
\* at the same time never exceeds min(number of validated targets, 5); the
\* other targets wait for a worker to finish.
PoolCap ==
    /\ Cardinality(Running) <= 5
    /\ Cardinality(Running) <= Len(frame.validated_instances)

\* five workers are executing and the sixth target waits
PoolCapWitness ==
    /\ Cardinality(Running) = 5
    /\ Len(frame.validated_instances) = 6
    /\ \E i \in DOMAIN frame.fut : frame.fut[i].st = "queued"

\* C17 as stated: after every completed run the results of the run end the
\* in-memory history and the file holds the most recent 100 entries of the
\* history, in order, whether or not the write succeeded.
HistoryKeptAlways ==
    frame.pc = "returned" =>
        LET h == results_history
            n == Len(frame.results)
        IN  /\ Len(h) >= n
            /\ \A k \in 1 .. n : h[Len(h) - n + k] = frame.results[k]
            /\ Len(disk) = (IF Len(h) < 100 THEN Len(h) ELSE 100)
            /\ \A k \in 1 .. Len(disk) : disk[k] = h[Len(h) - Len(disk) + k]

\* C17: after every completed run whose results were stored, the results
\* the run returned and the results of its re-drive are in the in-memory
\* history, and the file written holds the most recent 100 entries of the
\* history and no other, in the order of the history: when the history is
\* longer its oldest entries are the ones left out.
HistoryKept ==
    (frame.pc = "returned" /\ frame.saved # "") =>
        LET h == results_history
            n == Len(frame.results)
        IN  /\ Len(h) >= n
            /\ \A k \in 1 .. n : h[Len(h) - n + k] = frame.results[k]
            /\ Range(frame.retry_results) \subseteq Range(h)
            /\ frame.saved = "ok" =>
                  /\ Len(disk) = (IF Len(h) < 100 THEN Len(h) ELSE 100)
                  /\ \A k \in 1 .. Len(disk) : disk[k] = h[Len(h) - Len(disk) + k]

\* a run with a re-drive has returned and stored a history of more than 100 entries
HistoryKeptWitness ==
    /\ frame.pc = "returned"
    /\ frame.saved = "ok"
    /\ frame.retry_choice = "y"
    /\ Len(results_history) > 100
    /\ Len(disk) = 100

\* the call returns from the as_completed phase and its save has failed
ReturnsUnsaved ==
    /\ frame.pc = "pool"
    /\ stack = <<>>
    /\ frame'.pc # "pool"
    /\ frame'.saved = "failed"

\* C18: a failure while writing the history file is swallowed: the call
\* does not end by an exception, it returns one result per validated target,
\* the results and their statuses are the ones it had before the write, and
\* the in-memory history ends with them.
SaveFailureSwallowed ==
    /\ [](frame.pc # "raised")
    /\ []((frame.pc = "returned" /\ frame.saved = "failed") =>
            /\ Len(frame.results) = Len(frame.validated_instances)
            /\ Len(results_history) >= Len(frame.results)
            /\ \A k \in DOMAIN frame.results :
                  results_history[Len(results_history) - Len(frame.results) + k]
                     = frame.results[k])
    /\ [][ReturnsUnsaved =>
            /\ frame'.pc = "returned"
            /\ frame'.results = frame.results]_vars

\* a run has returned a success and a failure although its save failed
SaveFailureSwallowedWitness ==
    /\ frame.pc = "returned"
    /\ frame.saved = "failed"
    /\ \E i, j \in DOMAIN frame.results :
          frame.results[i].status = "SUCCESS" /\ frame.results[j].status = "FAILED"

\* a step that calls execute_batch_command again for the failed instances
RedriveStarts == Len(stack') = Len(stack) + 1

\* a re-drive starts only after the prompt of a completed pass was answered 'y'
RedriveStep ==
    RedriveStarts =>
        /\ all_collected
        /\ failed_count(frame.results) > 0
        /\ stack'[Len(stack')].retry_choice = "y"
        /\ frame'.pc = "preflight"
        /\ Range(frame'.instances) \subseteq Range(frame.validated_instances)

\* every other step of a completed pass returns its results as they are
DeclinedStep ==
    (all_collected /\ frame' # frame /\ ~RedriveStarts) =>
        /\ dispatched' = dispatched
        /\ IF stack = <<>>
           THEN /\ frame'.pc = "returned"
                /\ frame'.results = frame.results
                /\ frame'.fut = frame.fut
           ELSE /\ frame'.pc = "replace"
                /\ frame'.retry_results = frame.results

\* C19: a re-drive is never automatic. A call of execute_batch_command for
\* the failed instances starts only when the workers of the pass have all
\* been collected, some result is not a success and the answer to the prompt
\* is 'y'; every other step after the workers have completed returns the
\* results of the pass as they are and dispatches nothing; a run returned
\* without the answer 'y' holds only results of its first pass.
RedriveOnlyOnYes ==
    /\ [][RedriveStep /\ DeclinedStep]_vars
    /\ []((frame.pc = "returned" /\ frame.retry_choice # "y") =>
             \A k \in DOMAIN frame.results : frame.results[k].timestamp = 0)

\* the prompt was answered 'n': the run has returned its failure without a re-drive
RedriveOnlyOnYesWitness ==
    /\ frame.pc = "returned"
    /\ frame.retry_choice = "n"
    /\ stack = <<>>
    /\ \E k \in DOMAIN frame.results : frame.results[k].status # "SUCCESS"
    /\ Cardinality(dispatched) > 0

-----------------------------------------------------------------------------
(* Properties of the cache: the effect of each operation *)

\* thread t commits the value it fetched
Commits(t) == thr[t].pc = "fetched" /\ thr'[t].pc = "committed"

\* C27: a successful background refresh replaces the entry of its key
\* wholesale: the entry after the commit holds the fetched value, the time
\* of the commit and the policy TTL of the key (120 for an instances key,
\* the default 300 for an s3 key), whatever the entry it replaces, so the
\* value is served again from that moment; the entries of the other keys
\* stay; the in-flight marker is still set when the commit is made and is
\* removed only by a worker that has committed or failed.
RefreshReplacesEntry ==
    /\ [][\A t \in Threads :
            Commits(t) =>
              LET k == thr[t].key
              IN  /\ k \in DOMAIN cache'
                  /\ cache'[k].data = thr[t].new_data
                  /\ cache'[k].timestamp = now
                  /\ cache'[k].ttl_seconds = (IF Prefix(k) = "instances" THEN 120 ELSE 300)
                  /\ get(k)' = thr[t].new_data
                  /\ \A j \in DOMAIN cache \ {k} : j \in DOMAIN cache' /\ cache'[j] = cache[j]
                  /\ k \in background_refresh_active
                  /\ k \in background_refresh_active']_vars
    /\ [][\A k \in Keys :
            (k \in background_refresh_active /\ k \notin background_refresh_active') =>
               \E t \in Threads : thr[t].key = k /\ thr[t].pc \in {"committed", "failed"}]_vars
    /\ [](\A t \in Threads : thr[t].pc = "fetched" => thr[t].key \in background_refresh_active)

\* a refresh has replaced, at time 60, an entry by its fetched value under
\* the policy TTL, and its marker is not cleared yet
RefreshReplacesEntryWitness ==
    \E t \in Threads :
        /\ thr[t].pc = "committed"
        /\ thr[t].key \in background_refresh_active
        /\ thr[t].key \in DOMAIN cache
        /\ cache[thr[t].key].data = thr[t].new_data
        /\ cache[thr[t].key].timestamp = 60
        /\ cache[thr[t].key].ttl_seconds = 120
        /\ now = 60

\* C28: invalidate(key) removes the entry of key and no other and changes
\* nothing when key has no entry; clear() removes every entry; both leave
\* the in-flight markers and the refresh threads as they are, and
\* invalidate leaves the entries of all other keys unchanged.
InvalidateClearFrame ==
    /\ [][\A k \in Keys :
            Invalidate(k) =>
              /\ k \notin DOMAIN cache'
              /\ DOMAIN cache' = DOMAIN cache \ {k}
              /\ \A j \in DOMAIN cache' : cache'[j] = cache[j]
              /\ (k \notin DOMAIN cache => cache' = cache)
              /\ background_refresh_active' = background_refresh_active
              /\ thr' = thr]_vars
    /\ [][Clear =>
              /\ DOMAIN cache' = {}
              /\ background_refresh_active' = background_refresh_active
              /\ thr' = thr]_vars

\* a key in flight has no entry while the other key has one: its entry was
\* removed, or never set, and the marker and the entry of the other key stay
InvalidateClearFrameWitness ==
    \E k, j \in Keys :
        /\ k # j
        /\ k \in background_refresh_active
        /\ k \notin DOMAIN cache
        /\ j \in DOMAIN cache
        /\ \E t \in Threads : thr[t].key = k /\ thr[t].pc = "committed"

\* C29: get(key) has no side effect: it changes neither the entries nor the
\* in-flight markers. An expired entry is reported as absent and stays in
\* the map: an entry leaves the map or changes only by an invalidate, a
\* clear, a set or the commit of a refresh.
GetNoSideEffect ==
    /\ [][\A k \in Keys :
            Get(k) => cache' = cache /\ background_refresh_active' = background_refresh_active]_vars
    /\ [][\A k \in DOMAIN cache :
            (k \notin DOMAIN cache' \/ cache'[k] # cache[k]) =>
               \/ Invalidate(k)
               \/ Clear
               \/ \E v \in Values, a \in TtlArgs : Set(k, v, a)
               \/ \E t \in Threads : Commit(t)]_vars
    /\ [](\A k \in DOMAIN cache : is_expired(cache[k]) => get(k) = None)

\* an expired entry is still in the map and get reports it as absent
GetNoSideEffectWitness ==
    \E k \in DOMAIN cache :
        /\ is_expired(cache[k])
        /\ get(k) = None
        /\ now - cache[k].timestamp > cache[k].ttl_seconds

-----------------------------------------------------------------------------
(* Properties of the retry loop and of the re-drive *)

\* the pass of the retry loop for target i ended as e says
Succeeded(e) == e.send = "ok" /\ e.end = "Success"

\* C24: in the retry loop of a target, a pass that ends in a remote
\* failure, an exhausted poll or a submit error while retries remain is
\* followed by a new pass for the same target, which starts again from
\* send_command, with the attempt counter one higher and no result yet; a
\* pass that ends in Success ends the loop at once with a SUCCESS result;
\* a target whose loop has ended is not run again in this pass.
RetryLoopContinues ==
    /\ [][\A i \in DOMAIN frame.fut : \A e \in AttemptEvents(timeout_seconds) :
            Attempt(i, e.send, e.end) =>
              IF Succeeded(e)
              THEN /\ frame'.fut[i].st = "done"
                   /\ frame'.fut[i].result.status = "SUCCESS"
                   /\ frame'.fut[i].attempt = frame.fut[i].attempt
              ELSE IF frame.fut[i].attempt < 3
                   THEN /\ frame'.fut[i].st = "running"
                        /\ frame'.fut[i].attempt = frame.fut[i].attempt + 1
                        /\ frame'.fut[i].result = NoneResult
                   ELSE /\ frame'.fut[i].st = "done"
                        /\ frame'.fut[i].result.status \in {"FAILED", "TIMEOUT"}]_vars
    /\ [][\A i \in DOMAIN frame.fut :
            (frame.pc = "pool" /\ frame'.pc = "pool" /\ Len(stack') = Len(stack)
               /\ frame.fut[i].st = "done") =>
            /\ frame'.fut[i].st = "done"
            /\ dispatched' = dispatched \/ \E j \in DOMAIN frame.fut : j # i /\ frame.fut[j].st = "running"]_vars

\* a target has succeeded on its third attempt, after two failed ones
RetryLoopContinuesWitness ==
    \E i \in DOMAIN frame.fut :
        /\ frame.fut[i].st = "done"
        /\ frame.fut[i].attempt = 2
        /\ frame.fut[i].slept = <<10, 20>>
        /\ frame.fut[i].result.status = "SUCCESS"
        /\ frame.fut[i].event = [send |-> "ok", end |-> "Success"]

\* the call running is a re-drive
InRedrive == stack # <<>> /\ frame.pc = "pool"

\* the worker of target i returns a result that is not a success
ReturnsFailure(i) ==
    /\ frame.fut[i].st = "running"
    /\ frame'.fut[i].st = "done"
    /\ frame'.fut[i].result.status # "SUCCESS"

\* C25: a manual re-drive gives every re-driven target a full fresh retry
\* budget: in the re-drive the attempt counter of every target starts at 0
\* with no sleep made, whatever the target consumed in the initial pass, it
\* never exceeds max_retries, and a re-driven target is reported as failed
\* by its worker only after max_retries + 1 attempts of the re-drive, with
\* the sleeps 10, 20 and 30 between them.
RedriveFreshBudget ==
    /\ [](InRedrive =>
            \A i \in DOMAIN frame.fut :
               /\ frame.fut[i].attempt \in 0 .. 3
               /\ frame.fut[i].st = "queued" =>
                     frame.fut[i].attempt = 0 /\ frame.fut[i].slept = <<>>
               /\ Len(frame.fut[i].slept) <= frame.fut[i].attempt + 1)
    /\ [][\A i \in DOMAIN frame.fut :
            (InRedrive /\ frame'.pc = "pool" /\ stack' = stack /\ ReturnsFailure(i)) =>
               /\ frame.fut[i].attempt = 3
               /\ frame'.fut[i].slept = <<10, 20, 30>>]_vars
    /\ [][\A i \in DOMAIN frame.fut :
            (InRedrive /\ frame'.pc = "pool" /\ stack' = stack
               /\ frame.fut[i].st = "queued" /\ frame'.fut[i].st = "running") =>
               frame'.fut[i].attempt = 0]_vars

\* a target that failed in the initial pass has used all four attempts of
\* the re-drive as well
RedriveFreshBudgetWitness ==
    /\ InRedrive
    /\ \E i \in DOMAIN frame.fut :
          /\ frame.fut[i].st = "done"
          /\ frame.fut[i].attempt = 3
          /\ frame.fut[i].slept = <<10, 20, 30>>
          /\ frame.fut[i].result.status = "TIMEOUT"
          /\ \E k \in DOMAIN stack[1].pass_results :
                /\ stack[1].pass_results[k].instance_id = frame.validated_instances[i].InstanceId
                /\ stack[1].pass_results[k].status = "FAILED"

\* the ids of the results that are not a success
NotSuccessIds(results) ==
    {results[k].instance_id : k \in {j \in DOMAIN results : results[j].status # "SUCCESS"}}

\* C26: the failure subset offered for the re-drive is exactly the set of
\* validated targets whose result is not a success, FAILED and TIMEOUT
\* alike, one per such result; the failure count is len(results) minus the
\* number of SUCCESS results; the prompt appears if and only if that count
\* is greater than zero.
FailureSubsetExact ==
    /\ [][RedriveStarts =>
            /\ {t.InstanceId : t \in Range(frame'.instances)} = NotSuccessIds(frame.results)
            /\ Range(frame'.instances) \subseteq Range(frame.validated_instances)
            /\ Len(frame'.instances) =
                  Len(frame.results)
                    - Cardinality({j \in DOMAIN frame.results : frame.results[j].status = "SUCCESS"})
            /\ Len(frame'.instances) > 0]_vars
    /\ [][(all_collected /\ stack = <<>> /\ frame'.pc = "returned") =>
            (frame'.retry_choice # "" <=> NotSuccessIds(frame.results) # {})]_vars
    /\ []((frame.pc = "returned" /\ frame.retry_choice = "") =>
            \A k \in DOMAIN frame.results : frame.results[k].status = "SUCCESS")

\* a re-drive runs for the one target that timed out while the other succeeded
FailureSubsetExactWitness ==
    /\ stack # <<>>
    /\ Len(frame.instances) = 1
    /\ Len(stack[1].pass_results) = 2
    /\ \E k, j \in DOMAIN stack[1].pass_results :
          /\ stack[1].pass_results[k].status = "TIMEOUT"
          /\ stack[1].pass_results[k].instance_id = frame.instances[1].InstanceId
          /\ stack[1].pass_results[j].status = "SUCCESS"

-----------------------------------------------------------------------------
(* Properties of the time a worker records *)

\* the backoff sleeps of a worker that used all its attempts: 10 + 20 + 30
AllBackoff == retry_delay(1) + retry_delay(2) + retry_delay(3)

\* C23: for a target whose every attempt failed, the execution_time of the
\* reported result is the time the worker spent on all of its attempts,
\* the backoff sleeps between them included: it is the time elapsed since
\* the worker started, and at least the sum of the backoff sleeps.
ExecutionTimeCoversAttempts ==
    (worker.pc = "returned" /\ worker.status # "SUCCESS") =>
        /\ worker.execution_time = worker.clock
        /\ worker.execution_time >= AllBackoff

-----------------------------------------------------------------------------
(* Properties of the instance menu: the cache under list_instances *)

\* C31: after invalidate(key) has returned, get(key) returns absent until
\* a set, or a refresh started after the invalidation, commits a value.
\* list_instances starts a refresh only on a hit, while the key has an
\* entry, and only an invalidation removes an entry: so a worker never
\* commits while its key has no entry, which would re-create an entry that
\* was invalidated while the refresh was in flight.
InvalidationHolds ==
    [][\A t \in Threads : Commits(t) => thr[t].key \in DOMAIN cache]_vars

\* C32: cached data never goes backwards: the commit of a background
\* refresh never replaces the list cached for its key by a list that was
\* fetched earlier, so get(key) never returns older fetched data after
\* newer fetched data.
NeverBackwards ==
    [][\A t \in Threads :
          (/\ Commits(t)
           /\ thr[t].key \in DOMAIN cache
           /\ cache[thr[t].key].data # EmptyList
           /\ thr[t].new_data # EmptyList) =>
             /\ Age(cache'[thr[t].key].data) >= Age(cache[thr[t].key].data)
             /\ (get(thr[t].key) # None =>
                   Age(get(thr[t].key)') >= Age(get(thr[t].key)))]_vars

\* C33: when the refresh started by a cache hit of list_instances fails
\* upstream (describe_instances raises a ClientError in _fetch_instances),
\* the worker leaves the cached list of the key as it is: every entry is
\* unchanged and get(key) returns what it returned before.
UpstreamFailureKeepsList ==
    [][\A t \in Threads :
          (Commits(t) /\ thr[t].new_data = fetch_instances("ClientError")) =>
             /\ cache' = cache
             /\ get(thr[t].key)' = get(thr[t].key)]_vars

-----------------------------------------------------------------------------
(* Properties of the re-drive: the history and the replacement *)

\* the entries this run has appended to results_history: the results of
\* earlier runs carry a timestamp below 0
AppendedByRun ==
    LET New(r) == r.timestamp >= 0 IN SelectSeq(results_history, New)

\* C34: a top-level call of execute_batch_command, with or without a
\* re-drive, appends each result of the result set it returns to
\* results_history exactly once: the history grows by len(results) and
\* the entries appended are the results returned, in order.
HistoryOncePerResult ==
    (frame.pc = "returned" /\ stack = <<>> /\ frame.saved # "") =>
        /\ Len(AppendedByRun) = Len(frame.results)
        /\ AppendedByRun = frame.results

\* every failure of the first pass was re-driven and every re-driven target succeeded
AllRedrivenSucceeded ==
    /\ frame.retry_choice = "y"
    /\ Len(frame.retry_results) = failed_count(frame.pass_results)
    /\ \A j \in DOMAIN frame.retry_results : frame.retry_results[j].status = "SUCCESS"

\* C35: for every target list, one that names the same instance more than
\* once included, a re-drive in which every re-driven target succeeds
\* returns a result set without a FAILED or TIMEOUT entry.
RedriveClearsFailures ==
    (frame.pc = "returned" /\ stack = <<>> /\ AllRedrivenSucceeded) =>
        \A k \in DOMAIN frame.results : frame.results[k].status = "SUCCESS"

\* the original result is a failure the re-drive returned nothing for: the
\* validation of the re-drive dropped its instance
DroppedByRedrive(f, orig) ==
    /\ orig.status # "SUCCESS"
    /\ \A j \in DOMAIN f.retry_results : f.retry_results[j].instance_id # orig.instance_id

\* C36: when the validation of a re-drive drops a failed target (or all of
\* them, so that the re-drive returns nothing), the returned result set keeps
\* the original failure entry of that target, and it has as many entries as
\* there are originally validated targets.
DroppedKeepsFailure ==
    (frame.pc = "returned" /\ stack = <<>> /\ frame.retry_choice = "y") =>
        /\ Len(frame.results) = Len(frame.validated_instances)
        /\ \A k \in DOMAIN frame.pass_results :
              DroppedByRedrive(frame, frame.pass_results[k]) =>
                 /\ k \in DOMAIN frame.results
                 /\ frame.results[k] = frame.pass_results[k]

\* a run has returned after a re-drive of two failed targets whose validation
\* dropped one of them
DroppedKeepsFailureWitness ==
    /\ frame.pc = "returned"
    /\ stack = <<>>
    /\ frame.retry_choice = "y"
    /\ failed_count(frame.pass_results) = 2
    /\ Len(frame.retry_results) = 1
    /\ \E k \in DOMAIN frame.pass_results :
          DroppedByRedrive(frame, frame.pass_results[k])

\* C37: execute_on_instance ends every retry loop by returning a
\* BatchJobResult: whatever each attempt ended in (submit error, remote
\* failure, exhausted poll, other exception, success), a pass of the loop on
\* the last permitted attempt returns a result, a worker that is done holds a
\* result for its own target with a status, and no None reaches the results.
LoopAlwaysReturns ==
    /\ [][\A i \in DOMAIN frame.fut : \A e \in AttemptEvents(timeout_seconds) :
            (Attempt(i, e.send, e.end) /\ frame.fut[i].attempt = max_retries) =>
              /\ frame'.fut[i].st = "done"
              /\ frame'.fut[i].result # NoneResult]_vars
    /\ [][\A i \in DOMAIN frame.fut :
            (frame.pc = "pool" /\ frame'.pc = "pool"
               /\ frame'.fut[i].st = "done" /\ ~frame'.fut[i].collected) =>
              /\ frame'.fut[i].result # NoneResult
              /\ frame'.fut[i].result.status \in {"SUCCESS", "FAILED", "TIMEOUT"}
              /\ frame'.fut[i].result.instance_id = frame'.validated_instances[i].InstanceId]_vars
    /\ [][\A k \in DOMAIN frame'.results : frame'.results[k] # NoneResult]_vars

\* a worker whose last permitted attempt ended in a send_command error has
\* returned its FAILED result, after the three backoff sleeps
LoopAlwaysReturnsWitness ==
    \E i \in DOMAIN frame.fut :
        /\ frame.fut[i].st = "done"
        /\ ~frame.fut[i].collected
        /\ frame.fut[i].attempt = max_retries
        /\ frame.fut[i].event.send = "ClientError"
        /\ frame.fut[i].slept = <<10, 20, 30>>
        /\ frame.fut[i].result.status = "FAILED"
        /\ frame.fut[i].result.instance_id = frame.validated_instances[i].InstanceId

\* C38: a key is in the in-flight marker set only while a refresh worker for
\* it exists; when start_background_refresh has marked the key and the
\* worker thread cannot be started, the marker is removed again, so that
\* later refreshes of the key are not blocked.
MarkerImpliesWorker ==
    \A k \in background_refresh_active : LiveThreads(k) # {}

\* C39: for every resource class of the TTL policy other than 'default',
\* set(key, v) without explicit TTL gives the key '<class>_<profile>_<region>'
\* the TTL of its class, the classes whose name holds the separator included
\* (cloudwatch_dashboards, cloudwatch_alarms, cloudwatch_logs, s3_buckets,
\* s3_objects).
PolicyTtlAssigned ==
    \A c \in PolicyClasses :
        policy_key(c) \in DOMAIN cache =>
            cache[policy_key(c)].ttl_seconds = CACHE_TTLS[c]

====
